---- MODULE Spec2Model ----
(***************************************************************************)
(* Model of the cell tower geolocation service (src/main.py): the hex      *)
(* conversion hex_to_dec, process startup, GET /health and                 *)
(* POST /cell-location with its single call to the geolocation provider.   *)
(*                                                                         *)
(* Strings that the program inspects character by character (lac_hex,      *)
(* ci_hex) are sequences of one-character strings.  Floating-point values  *)
(* of the provider (lat, lng, accuracy) are integers in tenths.            *)
(***************************************************************************)
EXTENDS Integers, Sequences, FiniteSets, TLC

\* Longest input string of the hex_to_dec specification.
MaxLen == 5
\* Number of POST /cell-location requests handled concurrently.
NumReq == 2
\* Number of GET /health requests served.
MaxHealthCalls == 1

(***************************************************************************)
(* Python string and integer primitives used by hex_to_dec.                *)
(***************************************************************************)

\* Characters the inputs of the hex_to_dec specification are built from:
\* hex digits in both cases, the prefix letters, signs, the digit separator
\* Python's int() accepts, whitespace and a non-hex letter.
Alphabet == {"0", "a", "A", "x", "X", "-", "+", "_", " ", "z"}

IsSpace(c) == c = " "

\* The value of a base-16 digit, -1 for any other character.
DigitValue(c) ==
  CASE c = "0" -> 0 [] c = "1" -> 1 [] c = "2" -> 2 [] c = "3" -> 3
    [] c = "4" -> 4 [] c = "5" -> 5 [] c = "6" -> 6 [] c = "7" -> 7
    [] c = "8" -> 8 [] c = "9" -> 9
    [] c \in {"a", "A"} -> 10 [] c \in {"b", "B"} -> 11
    [] c \in {"c", "C"} -> 12 [] c \in {"d", "D"} -> 13
    [] c \in {"e", "E"} -> 14 [] c \in {"f", "F"} -> 15
    [] OTHER -> -1

IsHexDigit(c) == DigitValue(c) >= 0

\* str.lower() on one character.
LowerChar(c) ==
  CASE c = "A" -> "a" [] c = "B" -> "b" [] c = "C" -> "c" [] c = "D" -> "d"
    [] c = "E" -> "e" [] c = "F" -> "f" [] c = "X" -> "x" [] OTHER -> c

\* str.lower()
lower(s) == [k \in DOMAIN s |-> LowerChar(s[k])]

RECURSIVE lstrip(_)
lstrip(s) == IF s # <<>> /\ IsSpace(Head(s)) THEN lstrip(Tail(s)) ELSE s

RECURSIVE rstrip(_)
rstrip(s) ==
  IF s # <<>> /\ IsSpace(s[Len(s)]) THEN rstrip(SubSeq(s, 1, Len(s) - 1)) ELSE s

\* str.strip()
strip(s) == rstrip(lstrip(s))

\* str.startswith(p)
startswith(s, p) == Len(s) >= Len(p) /\ SubSeq(s, 1, Len(p)) = p

\* s[n:]
SliceFrom(s, n) == SubSeq(s, n + 1, Len(s))

\* The outcome of a conversion: an integer, or ValueError raised.
Ok(n) == [ok |-> TRUE, val |-> n]
ValueError == [ok |-> FALSE, val |-> 0]

\* The digit part of an int() literal: hex digits with single underscores
\* between them, at least one digit.
DigitsOk(w) ==
  /\ w # <<>>
  /\ \A k \in DOMAIN w : IsHexDigit(w[k]) \/ w[k] = "_"
  /\ w[1] # "_"
  /\ w[Len(w)] # "_"
  /\ \A k \in 1..(Len(w) - 1) : ~(w[k] = "_" /\ w[k + 1] = "_")

RECURSIVE DigitsValue(_, _)
DigitsValue(w, acc) ==
  IF w = <<>> THEN acc
  ELSE IF Head(w) = "_" THEN DigitsValue(Tail(w), acc)
  ELSE DigitsValue(Tail(w), 16 * acc + DigitValue(Head(w)))

\* Python's int(s, 16): surrounding whitespace skipped, an optional sign, an
\* optional 0x/0X prefix (with one underscore allowed after it), then the
\* digits.  Python integers are unbounded: nothing overflows.
int16(s) ==
  LET t == strip(s)
      signed == t # <<>> /\ t[1] \in {"+", "-"}
      sign == IF signed /\ t[1] = "-" THEN -1 ELSE 1
      u == IF signed THEN Tail(t) ELSE t
      pref == Len(u) >= 2 /\ u[1] = "0" /\ u[2] \in {"x", "X"}
      v == IF pref THEN SliceFrom(u, 2) ELSE u
      w == IF pref /\ v # <<>> /\ v[1] = "_" THEN Tail(v) ELSE v
  IN IF DigitsOk(w) THEN Ok(sign * DigitsValue(w, 0)) ELSE ValueError

\* hex_to_dec with the prefix sliced off one character too far.
hex_to_dec_slice3(value) ==
  LET stripped == strip(value)
  IN IF startswith(lower(stripped), <<"0", "x">>)
       THEN int16(SliceFrom(stripped, 3))
       ELSE int16(stripped)

\* hex_to_dec(value): strip, drop a leading 0x (any case), int(value, 16).
hex_to_dec(value) ==
  LET stripped == strip(value)
  IN IF startswith(lower(stripped), <<"0", "x">>)
       THEN int16(SliceFrom(stripped, 2))
       ELSE int16(stripped)


(***************************************************************************)
(* The request and response schemas, the provider and the handlers.        *)
(***************************************************************************)

\* CellLookupRequest defaults and the literals of cell_location.
DefaultMcc == 505
DefaultMnc == 1
DefaultRadioType == "lte"
PostTimeout == 5
StatusOk == 200
StatusBadRequest == 400
StatusBadGateway == 502

\* Values of the environment variable GOOGLE_GEO_API_KEY: "" is unset.
EnvValues == {"", "key-from-environment"}

\* The key written in the literal of GOOGLE_URL (the literal has no
\* placeholder: GOOGLE_API_KEY is not interpolated into it).
UrlLiteralKey == "key-literal-of-GOOGLE_URL"

GeolocateUrl == [base |-> "https://www.googleapis.com/geolocation/v1/geolocate",
                 key |-> UrlLiteralKey]
UnboundUrl == [base |-> "", key |-> ""]

\* An optional JSON member is a sequence: <<>> when absent, <<v>> when present.
\* Request bodies the schema accepts.
RequestBodies ==
  { [mcc |-> <<>>, mnc |-> <<>>, lac_hex |-> <<"3", "0", "1", "1">>,
     ci_hex |-> <<"8", "2", "6", "B", "C", "0", "3">>, radio_type |-> <<>>],
    [mcc |-> <<234>>, mnc |-> <<15>>, lac_hex |-> <<"0", "x", "1", "f">>,
     ci_hex |-> <<" ", "1", "F">>, radio_type |-> <<"gsm">>],
    [mcc |-> <<>>, mnc |-> <<>>, lac_hex |-> <<"z", "z">>,
     ci_hex |-> <<"8", "2", "6", "B", "C", "0", "3">>, radio_type |-> <<>>],
    [mcc |-> <<>>, mnc |-> <<>>, lac_hex |-> <<"3", "0", "1", "1">>,
     ci_hex |-> <<>>, radio_type |-> <<>>],
    [mcc |-> <<234>>, mnc |-> <<15>>, lac_hex |-> <<"z", "z">>,
     ci_hex |-> <<"0", "x">>, radio_type |-> <<"gsm">>],
    [mcc |-> <<>>, mnc |-> <<>>, lac_hex |-> <<"-", "3", "0", "1", "1">>,
     ci_hex |-> <<"8", "2", "6", "B", "C", "0", "3">>, radio_type |-> <<>>] }

\* CellLookupRequest: the body with the schema's defaults filled in.
CellLookupRequest(body) ==
  [mcc |-> IF body.mcc = <<>> THEN DefaultMcc ELSE body.mcc[1],
   mnc |-> IF body.mnc = <<>> THEN DefaultMnc ELSE body.mnc[1],
   lac_hex |-> body.lac_hex,
   ci_hex |-> body.ci_hex,
   radio_type |-> IF body.radio_type = <<>> THEN DefaultRadioType
                  ELSE body.radio_type[1]]

NoRequest == [mcc |-> 0, mnc |-> 0, lac_hex |-> <<>>, ci_hex |-> <<>>,
              radio_type |-> ""]

\* The provider's JSON body as far as cell_location reads it.
NotJson == [valid |-> FALSE, type |-> "none", location |-> <<>>,
            accuracy |-> <<>>]
JsonArray == [valid |-> TRUE, type |-> "array", location |-> <<>>,
              accuracy |-> <<>>]
JsonObject(location, accuracy) ==
  [valid |-> TRUE, type |-> "object", location |-> location,
   accuracy |-> accuracy]
Location(lat, lng) == [lat |-> lat, lng |-> lng]
Number(n) == [type |-> "number", num |-> n]
NotANumber == [type |-> "string", num |-> 0]

\* What requests.post can end with: an exception of the transport, or a
\* response with a status, a raw text and (perhaps) a JSON body.
Raised(e) == [exc |-> <<e>>, status_code |-> 0, text |-> "", json |-> NotJson]
Returned(status, text, json) ==
  [exc |-> <<>>, status_code |-> status, text |-> text, json |-> json]
NoReply == [exc |-> <<>>, status_code |-> 0, text |-> "", json |-> NotJson]

ProviderReplies ==
  { Raised("Read timed out. (read timeout=5)"),
    Raised("Connection refused"),
    Returned(204, "", NotJson),
    Returned(403, "{error:{code:403,message:quota}}",
             JsonObject(<<>>, <<>>)),
    Returned(201, "{location:{lat:-33.8,lng:151.2},accuracy:20}",
             JsonObject(<<Location(<<-338>>, <<1512>>)>>, <<Number(200)>>)),
    Returned(200, "{location:{lat:-33.8,lng:151.2},accuracy:20}",
             JsonObject(<<Location(<<-338>>, <<1512>>)>>, <<Number(200)>>)),
    Returned(200, "{location:{lat:51.5,lng:-0.1}}",
             JsonObject(<<Location(<<515>>, <<-1>>)>>, <<>>)),
    Returned(200, "{}", JsonObject(<<>>, <<>>)),
    Returned(200, "{location:{}}",
             JsonObject(<<Location(<<>>, <<>>)>>, <<>>)),
    Returned(200, "{location:{lat:-33.8}}",
             JsonObject(<<Location(<<-338>>, <<>>)>>, <<>>)),
    Returned(200, "{location:{lat:-33.8,lng:151.2},accuracy:high}",
             JsonObject(<<Location(<<-338>>, <<1512>>)>>, <<NotANumber>>)),
    Returned(200, "<html>gateway</html>", NotJson),
    Returned(200, "[]", JsonArray) }

\* An HTTP response of this service: the status, the parts of the detail
\* string of an error (concatenated in order), and the JSON body of a success.
NoResponse == [status |-> 0, detail |-> <<>>, body |-> <<>>]
HTTPException(status_code, detail) ==
  [status |-> status_code, detail |-> detail, body |-> <<>>]
\* An exception no handler catches: the server answers 500 with a plain text.
InternalServerError == [status |-> 500, detail |-> <<>>, body |-> <<>>]
JsonResponse(model) == [status |-> StatusOk, detail |-> <<>>, body |-> <<model>>]

InvalidHexDetail == <<"Invalid hex values for LAC or CI">>
NoLocationDetail == <<"No 'location' field in Google Geolocation API response">>

\* build_payload with the default country code in place of the request's.
BuildPayloadDefaultMcc(req, lac_dec, ci_dec) ==
  [cellTowers |-> << [mobileCountryCode |-> DefaultMcc,
                      mobileNetworkCode |-> req.mnc,
                      locationAreaCode |-> lac_dec,
                      cellId |-> ci_dec,
                      radioType |-> req.radio_type] >>]

\* The payload of the provider call: one tower.
BuildPayload(req, lac_dec, ci_dec) ==
  [cellTowers |-> << [mobileCountryCode |-> req.mcc,
                      mobileNetworkCode |-> req.mnc,
                      locationAreaCode |-> lac_dec,
                      cellId |-> ci_dec,
                      radioType |-> req.radio_type] >>]

\* requests.post(GOOGLE_URL, json=payload, timeout=5)
PostCall(url, payload) == [url |-> url, json |-> payload, timeout |-> PostTimeout]

\* A handler that posts once more when the transport failed.
RetryAfterFailure(reply, call) == IF reply.exc # <<>> THEN <<call>> ELSE <<>>

\* The provider calls cell_location makes after requests.post has ended with
\* reply: none, whatever the reply is.
CallsAfterReply(reply, call) == <<>>

\* "not location": the member is absent or an empty object.
Falsy(location) ==
  location = <<>> \/ (location[1].lat = <<>> /\ location[1].lng = <<>>)

\* The status test taking only the 4xx and 5xx statuses for errors.
IsErrorStatusFrom400(status_code) == status_code >= 400

\* r.status_code != 200
IsErrorStatus(status_code) == status_code # StatusOk

\* The rest of cell_location after requests.post has ended with reply.
MapReply(req, lac_dec, ci_dec, reply) ==
  IF reply.exc # <<>>
    THEN HTTPException(StatusBadGateway,
           <<"Error contacting Google Geolocation API: ", reply.exc[1]>>)
  ELSE IF IsErrorStatus(reply.status_code)
    THEN HTTPException(StatusBadGateway,
           <<"Google API error (status ", ToString(reply.status_code), "): ",
             reply.text>>)
  ELSE IF ~reply.json.valid
    THEN InternalServerError            \* r.json() raises
  ELSE IF reply.json.type # "object"
    THEN InternalServerError            \* data.get: AttributeError
  ELSE
    LET data == reply.json
        location == data.location
    IN IF Falsy(location)
         THEN HTTPException(StatusBadGateway, NoLocationDetail)
       ELSE IF location[1].lat = <<>> \/ location[1].lng = <<>>
         THEN InternalServerError       \* location["lat"]: KeyError
       ELSE
         LET accuracy == IF data.accuracy = <<>> THEN Number(0)
                         ELSE data.accuracy[1]
         IN IF accuracy.type # "number"
              THEN InternalServerError  \* CellLookupResponse: ValidationError
              ELSE JsonResponse([lat |-> location[1].lat[1],
                                 lon |-> location[1].lng[1],
                                 accuracy |-> accuracy.num,
                                 mcc |-> req.mcc,
                                 mnc |-> req.mnc,
                                 lac_dec |-> lac_dec,
                                 ci_dec |-> ci_dec])

HealthOk == [status |-> StatusOk, body |-> [status |-> "ok"]]
NoHealth == [status |-> 0, body |-> [status |-> ""]]

VARIABLES value, hexResult, hexPc,
          env, proc, GOOGLE_API_KEY, GOOGLE_URL, tasks, outbound, health

hexVars == <<value, hexResult, hexPc>>
svcVars == <<env, proc, GOOGLE_API_KEY, GOOGLE_URL, tasks, outbound, health>>
vars == <<value, hexResult, hexPc,
          env, proc, GOOGLE_API_KEY, GOOGLE_URL, tasks, outbound, health>>

Reqs == 1..NumReq

\* health_check reporting the provider's state.
health_check_upstream ==
  IF \E i \in Reqs : tasks[i].resp.status = StatusBadGateway
    THEN [status |-> 503, body |-> [status |-> "degraded"]]
    ELSE HealthOk

\* health_check()
health_check == HealthOk

IdleTask == [pc |-> "idle", req |-> NoRequest, lac_dec |-> 0, ci_dec |-> 0,
             reply |-> NoReply, resp |-> NoResponse]

\* All strings over Alphabet of length at most MaxLen.
Strings == UNION {[1..n -> Alphabet] : n \in 0..MaxLen}

\* The process before startup, no request received.
SvcIdle ==
  /\ proc = "starting"
  /\ GOOGLE_API_KEY = ""
  /\ GOOGLE_URL = UnboundUrl
  /\ tasks = [i \in Reqs |-> IdleTask]
  /\ outbound = [i \in Reqs |-> <<>>]
  /\ health = [served |-> 0, resp |-> NoHealth]

HexInit ==
  /\ value \in Strings
  /\ hexResult = ValueError
  /\ hexPc = "call"
  /\ env = ""
  /\ SvcIdle

\* One call of hex_to_dec on the input.
HexCall ==
  /\ hexPc = "call"
  /\ hexResult' = hex_to_dec(value)
  /\ hexPc' = "done"
  /\ UNCHANGED value
  /\ UNCHANGED svcVars

HexNext == HexCall

SpecHex == HexInit /\ [][HexNext]_vars

(***************************************************************************)
(* The service: startup, GET /health, POST /cell-location.                 *)
(***************************************************************************)

Init ==
  /\ value = <<>>
  /\ hexResult = ValueError
  /\ hexPc = "off"
  /\ env \in EnvValues
  /\ SvcIdle

\* Module import: read the key from the environment, fail without it, bind
\* GOOGLE_URL.
Startup ==
  /\ proc = "starting"
  /\ IF env = ""
       THEN /\ proc' = "failed"            \* RuntimeError
            /\ UNCHANGED <<GOOGLE_API_KEY, GOOGLE_URL>>
       ELSE /\ proc' = "running"
            /\ GOOGLE_API_KEY' = env
            /\ GOOGLE_URL' = GeolocateUrl
  /\ UNCHANGED <<env, tasks, outbound, health>>
  /\ UNCHANGED hexVars

\* GET /health
HealthCheck ==
  /\ proc = "running"
  /\ health.served < MaxHealthCalls
  /\ health' = [served |-> health.served + 1, resp |-> health_check]
  /\ UNCHANGED <<env, proc, GOOGLE_API_KEY, GOOGLE_URL, tasks, outbound>>
  /\ UNCHANGED hexVars

\* POST /cell-location up to the provider call: convert, build the payload,
\* post it; or answer 400 when a conversion raises ValueError.
CellLocationStart(i, body) ==
  /\ proc = "running"
  /\ tasks[i].pc = "idle"
  /\ LET req == CellLookupRequest(body)
         lac == hex_to_dec(req.lac_hex)
         ci == hex_to_dec(req.ci_hex)
     IN IF ~lac.ok \/ ~ci.ok
          THEN /\ tasks' = [tasks EXCEPT ![i] =
                     [@ EXCEPT !.pc = "done", !.req = req,
                               !.resp = HTTPException(StatusBadRequest,
                                                      InvalidHexDetail)]]
               /\ UNCHANGED outbound
          ELSE /\ tasks' = [tasks EXCEPT ![i] =
                     [@ EXCEPT !.pc = "awaiting", !.req = req,
                               !.lac_dec = lac.val, !.ci_dec = ci.val]]
               /\ outbound' = [outbound EXCEPT ![i] =
                     Append(@, PostCall(GOOGLE_URL,
                                        BuildPayload(req, lac.val, ci.val)))]
  /\ UNCHANGED <<env, proc, GOOGLE_API_KEY, GOOGLE_URL, health>>
  /\ UNCHANGED hexVars

\* POST /cell-location from the end of the provider call to the response.
CellLocationFinish(i, reply) ==
  /\ tasks[i].pc = "awaiting"
  /\ tasks' = [tasks EXCEPT ![i] =
        [@ EXCEPT !.pc = "done", !.reply = reply,
                  !.resp = MapReply(tasks[i].req, tasks[i].lac_dec,
                                     tasks[i].ci_dec, reply)]]
  /\ outbound' = [outbound EXCEPT ![i] =
        @ \o CallsAfterReply(reply, outbound[i][1])]
  /\ UNCHANGED <<env, proc, GOOGLE_API_KEY, GOOGLE_URL, health>>
  /\ UNCHANGED hexVars

Next ==
  \/ Startup
  \/ HealthCheck
  \/ \E i \in Reqs, body \in RequestBodies : CellLocationStart(i, body)
  \/ \E i \in Reqs, reply \in ProviderReplies : CellLocationFinish(i, reply)

Spec == Init /\ [][Next]_vars

(***************************************************************************)
(* The specification's notion of a valid hex string, used to state the     *)
(* claims: surrounding whitespace and one optional 0x/0X prefix removed,   *)
(* what remains is a non-empty run of the digits 0-9a-fA-F.                *)
(***************************************************************************)

SpecBody(s) ==
  LET t == strip(s)
  IN IF Len(t) >= 2 /\ t[1] = "0" /\ t[2] \in {"x", "X"}
       THEN SubSeq(t, 3, Len(t))
       ELSE t

SpecValidHex(s) ==
  /\ SpecBody(s) # <<>>
  /\ \A k \in DOMAIN SpecBody(s) : IsHexDigit(SpecBody(s)[k])

\* The base-16 reading of a run of hex digits, last digit first.
RECURSIVE SpecBase16(_)
SpecBase16(d) ==
  IF d = <<>> THEN 0
  ELSE 16 * SpecBase16(SubSeq(d, 1, Len(d) - 1)) + DigitValue(d[Len(d)])

Contains(detail, part) == \E k \in DOMAIN detail : detail[k] = part

Done(i) == tasks[i].pc = "done"
\* The provider call of request i has ended with a response (no exception).
Replied(i) == Done(i) /\ tasks[i].reply # NoReply /\ tasks[i].reply.exc = <<>>

(***************************************************************************)
(* Claims about hex_to_dec, under SpecHex.                                 *)
(***************************************************************************)

\* C1: every string that is not a valid hex string (empty, a non-hex
\* character, a sign, anything but a plain base-16 numeral after one
\* optional prefix) makes hex_to_dec fail with the invalid-hex error.
C1_RejectsEveryInvalidString ==
  hexPc = "done" /\ ~SpecValidHex(value) => ~hexResult.ok

\* C2: for every valid hex string, hex_to_dec returns the non-negative
\* base-16 reading of the string without whitespace and prefix; the prefix
\* and the letter case do not change the result.
C2_ValidHexIsBase16 ==
  hexPc = "done" /\ SpecValidHex(value) =>
    /\ hexResult = Ok(SpecBase16(SpecBody(value)))
    /\ hexResult.val >= 0
    /\ hex_to_dec(SpecBody(value)) = hexResult
    /\ hex_to_dec(<<"0", "x">> \o SpecBody(value)) = hexResult
    /\ hex_to_dec(<<"0", "X">> \o SpecBody(value)) = hexResult
    /\ hex_to_dec(lower(value)) = hexResult

\* A prefixed, mixed-case, padded input has been converted.
C2_Witness ==
  /\ hexPc = "done"
  /\ value = <<" ", "0", "X", "a", "A">>
  /\ hexResult = Ok(170)

(***************************************************************************)
(* Claims about the service, under Spec.                                   *)
(***************************************************************************)

\* C3: a request whose lac_hex or ci_hex is not valid hex is answered 400
\* with the generic invalid-hex detail, and no provider call is made for it.
C3_InvalidHexAnswers400WithoutCall ==
  \A i \in Reqs :
    /\ tasks[i].pc # "idle"
    /\ ~SpecValidHex(tasks[i].req.lac_hex) \/ ~SpecValidHex(tasks[i].req.ci_hex)
    => /\ outbound[i] = <<>>
       /\ tasks[i].resp = HTTPException(StatusBadRequest, InvalidHexDetail)

\* C4: a request whose hex fields pass the conversion makes exactly one
\* provider call whatever the provider does, never a second one; when the
\* call fails in the transport the request ends 502 with the error's text.
C4_OneProviderCallPerRequest ==
  \A i \in Reqs :
    /\ Len(outbound[i]) <= 1
    /\ ( /\ tasks[i].pc # "idle"
         /\ hex_to_dec(tasks[i].req.lac_hex).ok
         /\ hex_to_dec(tasks[i].req.ci_hex).ok
         => Len(outbound[i]) = 1 )
    /\ ( Done(i) /\ tasks[i].reply.exc # <<>>
         => /\ tasks[i].resp.status = StatusBadGateway
            /\ Contains(tasks[i].resp.detail, tasks[i].reply.exc[1])
            /\ tasks[i].resp.body = <<>> )

\* A request has ended 502 after its one call failed in the transport.
C4_Witness ==
  \E i \in Reqs :
    /\ Done(i)
    /\ tasks[i].reply = Raised("Read timed out. (read timeout=5)")
    /\ tasks[i].resp.status = StatusBadGateway
    /\ Len(outbound[i]) = 1

\* C5: a 200 response carries the lac_dec and ci_dec converted from its own
\* request's lac_hex and ci_hex, which are the locationAreaCode and cellId
\* of the one tower sent upstream for it, and its own request's mcc and
\* mnc, which are the codes sent upstream, under every interleaving.
C5_ResponseEchoesItsOwnRequest ==
  \A i \in Reqs :
    Done(i) /\ tasks[i].resp.status = StatusOk =>
      /\ Len(tasks[i].resp.body) = 1
      /\ Len(outbound[i]) = 1
      /\ Len(outbound[i][1].json.cellTowers) = 1
      /\ LET b == tasks[i].resp.body[1]
             tower == outbound[i][1].json.cellTowers[1]
             req == tasks[i].req
         IN /\ Ok(b.lac_dec) = hex_to_dec(req.lac_hex)
            /\ Ok(b.ci_dec) = hex_to_dec(req.ci_hex)
            /\ b.lac_dec = tower.locationAreaCode
            /\ b.ci_dec = tower.cellId
            /\ b.mcc = req.mcc
            /\ b.mnc = req.mnc
            /\ b.mcc = tower.mobileCountryCode
            /\ b.mnc = tower.mobileNetworkCode

\* Two different requests, handled concurrently, have both ended 200
\* (0x3011 = 12305, 0x826BC03 = 136756227, 0x1f = 31).
C5_Witness ==
  /\ Done(1) /\ Done(2)
  /\ tasks[1].resp.status = StatusOk
  /\ tasks[2].resp.status = StatusOk
  /\ tasks[1].resp.body[1].mcc = DefaultMcc
  /\ tasks[1].resp.body[1].lac_dec = 12305
  /\ tasks[1].resp.body[1].ci_dec = 136756227
  /\ tasks[2].resp.body[1].mcc = 234
  /\ tasks[2].resp.body[1].lac_dec = 31

\* C6: every request ends 200 with a response body, or 400 or 502 with a
\* detail, whatever the provider returns.
C6_EveryOutcomeIs200Or400Or502 ==
  \A i \in Reqs :
    Done(i) =>
      \/ tasks[i].resp.status = StatusOk /\ tasks[i].resp.body # <<>>
      \/ /\ tasks[i].resp.status \in {StatusBadRequest, StatusBadGateway}
         /\ tasks[i].resp.detail # <<>>

ReportedAsUpstreamError(resp) ==
  /\ resp.status = StatusBadGateway
  /\ resp.detail # <<>>
  /\ resp.detail[1] = "Google API error (status "

SpecHasLocation(json) ==
  /\ json.valid
  /\ json.type = "object"
  /\ json.location # <<>>
  /\ json.location[1] # Location(<<>>, <<>>)

\* C8: on a provider success, a body without a location object ends the
\* request 502 with the fixed detail; otherwise the response is 200 with
\* lat = location.lat, lon = location.lng and accuracy = the body's
\* accuracy, 0 when absent.
C8_SuccessMapsLocation ==
  \A i \in Reqs :
    Replied(i) /\ tasks[i].reply.status_code \in 200..299 =>
      LET json == tasks[i].reply.json
          resp == tasks[i].resp
      IN IF ~SpecHasLocation(json)
           THEN resp = HTTPException(StatusBadGateway, NoLocationDetail)
           ELSE /\ resp.status = StatusOk
                /\ Len(resp.body) = 1
                /\ json.location[1].lat = <<resp.body[1].lat>>
                /\ json.location[1].lng = <<resp.body[1].lon>>
                /\ IF json.accuracy = <<>>
                     THEN resp.body[1].accuracy = 0
                     ELSE json.accuracy[1] = Number(resp.body[1].accuracy)

\* C9: the key of every provider call is the value read at startup from
\* the environment; that value never changes; without it the process fails
\* at startup and serves nothing.
C9_ProviderKeyIsEnvironmentKey ==
  /\ proc = "running" => GOOGLE_API_KEY = env /\ env # ""
  /\ env = "" /\ proc # "starting" => proc = "failed"
  /\ proc # "running" =>
       /\ health.served = 0
       /\ \A i \in Reqs : tasks[i].pc = "idle" /\ outbound[i] = <<>>
  /\ \A i \in Reqs : \A k \in DOMAIN outbound[i] :
       outbound[i][k].url.key = env

\* C10: every GET /health answers 200 {"status": "ok"}, whatever the state
\* of the requests and of the provider, and makes no provider call.
C10_HealthAlwaysOk ==
  [][health' # health =>
       /\ health'.resp = HealthOk
       /\ outbound' = outbound
       /\ tasks' = tasks]_vars

\* /health has been served while one request had failed upstream and
\* another was waiting for the provider.
C10_Witness ==
  /\ health.served >= 1
  /\ health.resp = HealthOk
  /\ \E i, j \in Reqs :
       /\ tasks[i].resp.status = StatusBadGateway
       /\ tasks[j].pc = "awaiting"

(***************************************************************************)
(* What the handler does guarantee where C3 and C8 fail: facts checked     *)
(* under Spec beside the claims.                                           *)
(***************************************************************************)

\* A request one of whose conversions raises ValueError is answered 400
\* with the generic detail and makes no provider call.
ConversionFailureAnswers400 ==
  \A i \in Reqs :
    /\ tasks[i].pc # "idle"
    /\ ~hex_to_dec(tasks[i].req.lac_hex).ok \/ ~hex_to_dec(tasks[i].req.ci_hex).ok
    => /\ outbound[i] = <<>>
       /\ tasks[i].resp = HTTPException(StatusBadRequest, InvalidHexDetail)

\* The body is a JSON object whose location, when present, has lat and lng
\* and whose accuracy, when present, is a number.
DocumentedShape(json) ==
  /\ json.valid
  /\ json.type = "object"
  /\ json.location # <<>> =>
       json.location[1] = Location(<<>>, <<>>)
       \/ (json.location[1].lat # <<>> /\ json.location[1].lng # <<>>)
  /\ json.accuracy # <<>> => json.accuracy[1].type = "number"

\* With status 200 and a body of the documented shape, the mapping of C8
\* holds.
Status200MapsDocumentedBody ==
  \A i \in Reqs :
    /\ Replied(i)
    /\ tasks[i].reply.status_code = StatusOk
    /\ DocumentedShape(tasks[i].reply.json)
    => LET json == tasks[i].reply.json
           resp == tasks[i].resp
       IN IF ~SpecHasLocation(json)
            THEN resp = HTTPException(StatusBadGateway, NoLocationDetail)
            ELSE /\ resp.status = StatusOk
                 /\ Len(resp.body) = 1
                 /\ json.location[1].lat = <<resp.body[1].lat>>
                 /\ json.location[1].lng = <<resp.body[1].lon>>
                 /\ IF json.accuracy = <<>>
                      THEN resp.body[1].accuracy = 0
                      ELSE json.accuracy[1] = Number(resp.body[1].accuracy)
====
